---- MODULE Spec2Model ----
(***************************************************************************)
(* The PDF summarizer backend: the POST /upload handler (backend/main.py), *)
(* the text extractor (backend/pdf_extractor.py) and the summarization     *)
(* client (agent/agent.py), as a state machine over request slots.         *)
(*                                                                         *)
(* Python strings are sequences of tokens: a literal of the source is one  *)
(* token, a character of user data (file name, page text, model output)    *)
(* is one token, and a formatted number is its decimal digits.             *)
(***************************************************************************)
EXTENDS Integers, Sequences, FiniteSets, TLC

\* ------------------------------------------------------------- bounds
NumRequests == 2
MaxPages == 3
MaxEvents == 2

\* ---------------------------------------------------- program constants
MAX_FILE_SIZE_MB == 10
MAX_FILE_SIZE_BYTES == MAX_FILE_SIZE_MB * 1024 * 1024

Requests == 1..NumRequests

\* Names tempfile can hand out, and values uuid4().hex[:8] can take.
Paths == {"/tmp/tmpA.pdf", "/tmp/tmpB.pdf", "/tmp/tmpC.pdf"}
SessionIds == {"pdf_session_0000aaaa", "pdf_session_0000bbbb"}

Unbound == "<unbound>"
Whitespace == {" ", "\n"}

\* ------------------------------------------------------- str operations
Digit == <<"0", "1", "2", "3", "4", "5", "6", "7", "8", "9">>

RECURSIVE IntToStr(_)
IntToStr(n) ==
    IF n < 10 THEN <<Digit[n + 1]>>
    ELSE IntToStr(n \div 10) \o <<Digit[(n % 10) + 1]>>

LowerChar(c) ==
    CASE c = "A" -> "a"
      [] c = "P" -> "p"
      [] c = "D" -> "d"
      [] c = "F" -> "f"
      [] c = "T" -> "t"
      [] c = "X" -> "x"
      [] OTHER -> c

lower(s) == [i \in 1..Len(s) |-> LowerChar(s[i])]

endswith(s, suffix) ==
    /\ Len(s) >= Len(suffix)
    /\ SubSeq(s, Len(s) - Len(suffix) + 1, Len(s)) = suffix

RECURSIVE lstrip(_)
lstrip(s) ==
    IF s # <<>> /\ Head(s) \in Whitespace THEN lstrip(Tail(s)) ELSE s

RECURSIVE rstrip(_)
rstrip(s) ==
    IF s # <<>> /\ s[Len(s)] \in Whitespace
    THEN rstrip(SubSeq(s, 1, Len(s) - 1))
    ELSE s

strip(s) == rstrip(lstrip(s))

\* ---------------------------------------------------------- exceptions
NoExc == [kind |-> "", msg |-> <<>>]
Exc(k, m) == [kind |-> k, msg |-> m]

\* ------------------------------------------------------------ responses
NoResponse ==
    [status |-> 0, detail |-> <<>>, summary |-> <<>>, page_count |-> 0,
     file_name |-> <<>>]

HTTPException(code, d) ==
    [status |-> code, detail |-> d, summary |-> <<>>, page_count |-> 0,
     file_name |-> <<>>]

SummaryResponse(s, n, f) ==
    [status |-> 200, detail |-> <<>>, summary |-> s, page_count |-> n,
     file_name |-> f]

\* What the framework answers when the handler lets a non-HTTP exception out.
ServerError == HTTPException(500, <<"Internal Server Error">>)

\* --------------------------------------------------------------- inputs
PDF_SUFFIX == <<".", "p", "d", "f">>
GoodName == <<"a", ".", "p", "d", "f">>

Filenames ==
    { GoodName,
      <<"A", ".", "P", "D", "F">>,
      <<"a", ".", "P", "d", "f">>,
      <<".", "p", "d", "f">>,
      <<"a", ".", "t", "x", "t">>,
      <<"a", ".", "p", "d", "f", ".", "t", "x", "t">>,
      <<"a", "p", "d", "f">>,
      <<"p", "d", "f">>,
      <<>> }

Sizes == {0, 1, MAX_FILE_SIZE_BYTES, MAX_FILE_SIZE_BYTES + 1}

\* What page.get_text() returns for a page: nothing, whitespace only, text.
PageTexts == { <<>>, <<" ", "\n">>, <<"a">>, <<" ", "b", "\n">> }

PageSeqs == UNION { [1..n -> PageTexts] : n \in 0..MaxPages }

\* The uploaded bytes as the PDF library sees them: a broken container, or
\* a document with its pages.
InvalidDoc == [valid |-> FALSE, pages |-> <<>>]
GoodDoc == [valid |-> TRUE, pages |-> << <<"a">> >>]
Docs == {InvalidDoc} \cup { [valid |-> TRUE, pages |-> ps] : ps \in PageSeqs }

GoodUpload == [filename |-> GoodName, size |-> 1, doc |-> GoodDoc]

\* Every file name with every size, and every document under a good name.
Uploads ==
    { [filename |-> f, size |-> n,
       doc |-> IF n = 0 THEN InvalidDoc ELSE GoodDoc] :
         f \in Filenames, n \in Sizes }
    \cup { [filename |-> GoodName, size |-> 1, doc |-> d] : d \in Docs }

\* The same good upload for every request, or one that is turned away.
ConcUploads ==
    { GoodUpload,
      [filename |-> <<"a", ".", "t", "x", "t">>, size |-> 1,
       doc |-> GoodDoc] }

\* A part of an event's content: part.text missing/None, or a string.
NoText == [has |-> FALSE, text |-> <<>>]
Text(t) == [has |-> TRUE, text |-> t]
Parts == { NoText, Text(<<>>), Text(<<" ">>), Text(<<"a">>), Text(<<"b">>) }

NoContent == [content |-> FALSE, parts |-> <<>>]
Content(ps) == [content |-> TRUE, parts |-> ps]

\* An event has no content, or content with no part, one part, or two
\* parts of which the first has a text and the second is not the empty one.
Events ==
    {NoContent} \cup {Content(<<>>)}
    \cup { Content(<<p>>) : p \in Parts }
    \cup { Content(<<p, q>>) : p \in Parts \ {NoText}, q \in Parts \ {Text(<<>>)} }

SmallEvents == { NoContent, Content(<< Text(<<"a">>) >>) }

TextEvents == { Content(<< Text(<<"a">>) >>) }

\* Messages of the errors the collaborators raise.
FITZ_BROKEN == <<"Failed to open file">>
IO_ERROR == <<"[Errno 28] No space left on device">>
RuntimeErrors == { <<"Connection refused">>, <<"model not found">> }

\* ------------------------------------------ backend/pdf_extractor.py
marker(n) == <<"--- Page ">> \o IntToStr(n) \o <<" ---", "\n">>

\* The loop without its test for a blank page.
RECURSIVE text_content_every_page(_, _)
text_content_every_page(pages, from) ==
    IF from > Len(pages) THEN <<>>
    ELSE <<marker(from) \o pages[from]>>
         \o text_content_every_page(pages, from + 1)

\* text_content after the loop has run over pages from..Len(pages).
RECURSIVE text_content(_, _)
text_content(pages, from) ==
    IF from > Len(pages) THEN <<>>
    ELSE IF strip(pages[from]) # <<>>
         THEN <<marker(from) \o pages[from]>> \o text_content(pages, from + 1)
         ELSE text_content(pages, from + 1)

RECURSIVE join(_, _)
join(sep, items) ==
    IF items = <<>> THEN <<>>
    ELSE IF Len(items) = 1 THEN items[1]
    ELSE items[1] \o sep \o join(sep, Tail(items))

\* The try body of extract_text: what it raises, or the text it returns.
\* fault names the library call that raises for a reason of its own.
extract_body(doc, fault) ==
    IF ~doc.valid
    THEN [exc |-> Exc("FileDataError", FITZ_BROKEN), text |-> <<>>]
    ELSE IF fault = "open"
    THEN [exc |-> Exc("OSError", IO_ERROR), text |-> <<>>]
    ELSE IF fault = "get_text"
    THEN [exc |-> Exc("RuntimeError", <<"cannot load page">>), text |-> <<>>]
    ELSE LET content == text_content(doc.pages, 1) IN
         IF content = <<>>
         THEN [exc |-> Exc("ValueError", <<"No text content found in PDF">>),
               text |-> <<>>]
         ELSE [exc |-> NoExc, text |-> join(<<"\n", "\n">>, content)]

\* One handler for everything: the broken file is no ValueError.
extract_text_one_handler(doc, fault) ==
    LET body == extract_body(doc, fault) IN
    IF body.exc.kind = "" THEN body
    ELSE [exc |-> Exc("Exception",
                      <<"Error extracting text from PDF: ">> \o body.exc.msg),
          text |-> <<>>]

\* extract_text with its two handlers: the except clauses guard the whole
\* try body, the ValueError raised inside it included.
extract_text(doc, fault) ==
    LET body == extract_body(doc, fault) IN
    IF body.exc.kind = "" THEN body
    ELSE IF body.exc.kind = "FileDataError"
    THEN [exc |-> Exc("ValueError",
                      <<"Invalid or corrupted PDF file: ">> \o body.exc.msg),
          text |-> <<>>]
    ELSE [exc |-> Exc("Exception",
                      <<"Error extracting text from PDF: ">> \o body.exc.msg),
          text |-> <<>>]

get_page_count(doc, fault) ==
    IF ~doc.valid
    THEN [exc |-> Exc("Exception", <<"Error reading PDF: ">> \o FITZ_BROKEN),
          count |-> 0]
    ELSE IF fault = "page_count"
    THEN [exc |-> Exc("Exception", <<"Error reading PDF: ">> \o IO_ERROR),
          count |-> 0]
    ELSE [exc |-> NoExc, count |-> Len(doc.pages)]

\* The faults the library can raise on this document.
ExtractFaults(doc) ==
    IF ~doc.valid THEN {""}
    ELSE {"", "open", "page_count"}
         \cup (IF Len(doc.pages) > 0 THEN {"get_text"} ELSE {})

\* -------------------------------------------------- agent/agent.py
\* The inner loop over event.content.parts: response_text += part.text.
RECURSIVE append_parts(_, _)
append_parts(text, parts) ==
    IF parts = <<>> THEN text
    ELSE append_parts(
             IF Head(parts).has /\ Head(parts).text # <<>>
             THEN text \o Head(parts).text
             ELSE text,
             Tail(parts))

\* The new text put in front of the old.
on_event_prepend(text, event) ==
    IF event.content THEN append_parts(<<>>, event.parts) \o text ELSE text

\* One turn of the async for loop.
on_event(text, event) ==
    IF event.content THEN append_parts(text, event.parts) ELSE text

\* The failure raised again without the original message.
adk_failure_without_cause(msg) ==
    Exc("Exception", <<"Google ADK failed to generate summary. ">>)

\* The except clause of get_pdf_summary: every failure is raised again
\* with the original message inside.
adk_failure(msg) ==
    Exc("Exception",
        <<"Google ADK failed to generate summary. ", "Error: ">> \o msg
        \o <<". ", "This helps identify ADK configuration or integration issues.">>)

\* After the loop: the stripped text, or the failure for an empty one, which
\* is raised inside the try and so wrapped like any other.
end_of_stream(text) ==
    IF strip(text) # <<>>
    THEN [exc |-> NoExc, summary |-> strip(text)]
    ELSE [exc |-> adk_failure(<<"ADK did not generate any response. ",
                               "Check if Ollama is running and the model is available.">>),
          summary |-> <<>>]

session_key(sid) ==
    [app_name |-> "pdf_summarizer", user_id |-> "pdf_user", session_id |-> sid]

\* -------------------------------------------------- backend/main.py
\* The suffix compared without its dot.
is_pdf_filename_no_dot(filename) ==
    endswith(lower(filename), <<"p", "d", "f">>)

is_pdf_filename(filename) == endswith(lower(filename), PDF_SUFFIX)

\* The limit itself turned away: >= for >.
size_error_at_limit(file_size) ==
    IF file_size >= MAX_FILE_SIZE_BYTES
    THEN HTTPException(400,
             <<"File size exceeds maximum allowed size of ">>
             \o IntToStr(MAX_FILE_SIZE_MB) \o <<"MB">>)
    ELSE IF file_size = 0
    THEN HTTPException(400, <<"Uploaded file is empty">>)
    ELSE NoResponse

\* The two size checks: the HTTPException raised, or NoResponse.
size_error(file_size) ==
    IF file_size > MAX_FILE_SIZE_BYTES
    THEN HTTPException(400,
             <<"File size exceeds maximum allowed size of ">>
             \o IntToStr(MAX_FILE_SIZE_MB) \o <<"MB">>)
    ELSE IF file_size = 0
    THEN HTTPException(400, <<"Uploaded file is empty">>)
    ELSE NoResponse

\* Any name, the name of a file that exists included.
NewTempPaths_any(files) == Paths

\* Names NamedTemporaryFile can create: it opens with O_EXCL, so never the
\* name of a file that exists.
NewTempPaths(files) == Paths \ files

\* The extractor's failure swallowed: the handler goes on without a text.
extraction_swallowed(doc, fault) ==
    LET text == extract_text(doc, fault)
        pages == get_page_count(doc, fault)
    IN  [error |-> NoResponse, pdf_text |-> text.text,
         page_count |-> pages.count]

\* The inner try around the extractor: the HTTPException it raises, or the
\* text and the page count.
extraction(doc, fault) ==
    LET text == extract_text(doc, fault)
        pages == get_page_count(doc, fault)
        failed == IF text.exc.kind # "" THEN text.exc ELSE pages.exc
    IN  IF failed.kind = "" THEN
            [error |-> NoResponse, pdf_text |-> text.text,
             page_count |-> pages.count]
        ELSE IF failed.kind = "ValueError" THEN
            [error |-> HTTPException(400, failed.msg), pdf_text |-> <<>>,
             page_count |-> 0]
        ELSE
            [error |-> HTTPException(500,
                           <<"Error processing PDF: ">> \o failed.msg),
             pdf_text |-> <<>>, page_count |-> 0]

summary_error(exc) ==
    HTTPException(500, <<"Error generating summary: ">> \o exc.msg)

unexpected_error(msg) == HTTPException(500, <<"Unexpected error: ">> \o msg)

\* The finally clause. temp_file is the bound object or None; the path is
\* read only when temp_file is truthy, and is unbound when the write raised
\* before the assignment. raised: the clause itself raised UnboundLocalError.
cleanup(temp_file, temp_file_path, files, unlink_ok) ==
    IF ~temp_file THEN [raised |-> FALSE, files |-> files]
    ELSE IF temp_file_path = Unbound THEN [raised |-> TRUE, files |-> files]
    ELSE IF temp_file_path \in files /\ unlink_ok
    THEN [raised |-> FALSE, files |-> files \ {temp_file_path}]
    ELSE [raised |-> FALSE, files |-> files]

\* ------------------------------------------------------------- state
VARIABLES
    pc,               \* where each request's handler stands
    upload,           \* the request: file.filename, len(content), the bytes
    temp_file,        \* upload_pdf's temp_file is bound to a file object
    temp_file_path,   \* upload_pdf's temp_file_path
    pdf_text,         \* upload_pdf's pdf_text
    page_count,       \* upload_pdf's page_count
    session_service,  \* get_pdf_summary's InMemorySessionService: its keys
    response_text,    \* get_pdf_summary's response_text
    nevents,          \* the events run_async has yielded so far
    resp,             \* the response sent
    disk,             \* the temp directory: the paths that exist
    hist              \* what happened to the request so far

vars ==
    <<pc, upload, temp_file, temp_file_path, pdf_text, page_count,
      session_service, response_text, nevents, resp, disk, hist>>

\* The locals of get_pdf_summary.
agent_vars == <<session_service, response_text, nevents>>

\* The locals of upload_pdf set inside its try statement.
handler_vars == <<temp_file, temp_file_path, pdf_text, page_count>>

NoUpload == [filename |-> <<>>, size |-> 0, doc |-> InvalidDoc]

NoHist ==
    [stages |-> <<>>, created |-> "", fault |-> "", error |-> <<>>,
     unlink_failed |-> FALSE, extract_calls |-> 0, model_calls |-> 0,
     events |-> <<>>, ended |-> FALSE]

Received == [NoHist EXCEPT !.stages = <<"Received">>]

\* The history is kept for a request accepted with one, and not otherwise.
Note(old, new) == IF old.stages = <<>> THEN old ELSE new

Init ==
    /\ pc = [r \in Requests |-> "idle"]
    /\ upload = [r \in Requests |-> NoUpload]
    /\ temp_file = [r \in Requests |-> FALSE]
    /\ temp_file_path = [r \in Requests |-> Unbound]
    /\ pdf_text = [r \in Requests |-> <<>>]
    /\ page_count = [r \in Requests |-> 0]
    /\ session_service = [r \in Requests |-> {}]
    /\ response_text = [r \in Requests |-> <<>>]
    /\ nevents = [r \in Requests |-> 0]
    /\ resp = [r \in Requests |-> NoResponse]
    /\ disk = {}
    /\ hist = [r \in Requests |-> NoHist]

FinalStage(response) ==
    IF response.status = 200 THEN <<"Summarized", "Responded">>
    ELSE IF response.status < 500 THEN <<"Rejected">>
    ELSE <<"Failed">>

\* The handler leaves through its except and finally clauses with the
\* pending response; tf, tfp, files: temp_file, temp_file_path and the disk
\* at that point. Its locals are gone with its frame.
Leave(r, pending, tf, tfp, files, h) ==
    \E unlink_ok \in (IF tf /\ tfp \in files THEN BOOLEAN ELSE {TRUE}) :
        LET fin == cleanup(tf, tfp, files, unlink_ok)
            out == IF fin.raised THEN ServerError ELSE pending
        IN  /\ pc' = [pc EXCEPT ![r] = "done"]
            /\ resp' = [resp EXCEPT ![r] = out]
            /\ disk' = fin.files
            /\ temp_file' = [temp_file EXCEPT ![r] = FALSE]
            /\ temp_file_path' = [temp_file_path EXCEPT ![r] = Unbound]
            /\ pdf_text' = [pdf_text EXCEPT ![r] = <<>>]
            /\ page_count' = [page_count EXCEPT ![r] = 0]
            /\ session_service' = [session_service EXCEPT ![r] = {}]
            /\ response_text' = [response_text EXCEPT ![r] = <<>>]
            /\ nevents' = [nevents EXCEPT ![r] = 0]
            /\ hist' = [hist EXCEPT ![r] = Note(@,
                   [h EXCEPT !.stages = @ \o FinalStage(out),
                             !.unlink_failed = ~unlink_ok])]
            /\ UNCHANGED upload

\* ------------------------------------------------------------ actions
Accept(r, u, h) ==
    /\ pc[r] = "idle"
    /\ pc' = [pc EXCEPT ![r] = "received"]
    /\ upload' = [upload EXCEPT ![r] = u]
    /\ hist' = [hist EXCEPT ![r] = h]
    /\ UNCHANGED <<handler_vars, agent_vars, resp, disk>>

\* One request at a time, any upload.
Receive(r) ==
    /\ r = 1
    /\ \A q \in Requests : pc[q] = "idle"
    /\ \E u \in Uploads : Accept(r, u, Received)

\* One request at a time, the good upload.
ReceiveGood(r) ==
    /\ r = 1
    /\ \A q \in Requests : pc[q] = "idle"
    /\ Accept(r, GoodUpload, Received)

\* Requests side by side, no history kept.
ReceiveConcurrent(r) == \E u \in ConcUploads : Accept(r, u, NoHist)

\* Lines 92-114: the extension, the read, the two size checks. A rejection
\* is raised before the try statement, so no finally clause runs.
Validate(r) ==
    /\ pc[r] = "received"
    /\ LET error == IF ~is_pdf_filename(upload[r].filename)
                    THEN HTTPException(400, <<"Only PDF files are allowed">>)
                    ELSE size_error(upload[r].size)
       IN  IF error.status # 0
           THEN /\ pc' = [pc EXCEPT ![r] = "done"]
                /\ resp' = [resp EXCEPT ![r] = error]
                /\ hist' = [hist EXCEPT ![r] = Note(@,
                       [@ EXCEPT !.stages = @ \o <<"Rejected">>])]
           ELSE /\ pc' = [pc EXCEPT ![r] = "validated"]
                /\ resp' = resp
                /\ hist' = [hist EXCEPT ![r] = Note(@,
                       [@ EXCEPT !.stages = @ \o <<"Validated">>])]
    /\ UNCHANGED <<upload, handler_vars, agent_vars, disk>>

\* Lines 117-122, NamedTemporaryFile raises: temp_file stays None.
StageCreateFails(r) ==
    /\ pc[r] = "validated"
    /\ Leave(r, unexpected_error(IO_ERROR), FALSE, Unbound, disk,
             [hist[r] EXCEPT !.fault = "create"])

\* Lines 117-122, temp_file.write raises: the file exists, temp_file is
\* bound, temp_file_path is not.
StageWriteFails(r) ==
    /\ pc[r] = "validated"
    /\ \E p \in NewTempPaths(disk) :
           Leave(r, unexpected_error(IO_ERROR), TRUE, Unbound,
                 disk \cup {p},
                 [hist[r] EXCEPT !.fault = "write", !.created = p])

\* Lines 117-122.
Stage(r) ==
    /\ pc[r] = "validated"
    /\ \E p \in NewTempPaths(disk) :
           /\ disk' = disk \cup {p}
           /\ temp_file_path' = [temp_file_path EXCEPT ![r] = p]
           /\ hist' = [hist EXCEPT ![r] = Note(@,
                  [@ EXCEPT !.created = p, !.stages = @ \o <<"Staged">>])]
    /\ temp_file' = [temp_file EXCEPT ![r] = TRUE]
    /\ pc' = [pc EXCEPT ![r] = "staged"]
    /\ UNCHANGED <<upload, pdf_text, page_count, agent_vars, resp>>

\* Lines 124-131: extract_text, then get_page_count, on the staged file.
Extract(r) ==
    /\ pc[r] = "staged"
    /\ \E fault \in ExtractFaults(upload[r].doc) :
           LET got == extraction(upload[r].doc, fault)
               h == [hist[r] EXCEPT !.fault = fault,
                                    !.extract_calls = @ + 1]
           IN  IF got.error.status # 0
               THEN Leave(r, got.error, temp_file[r], temp_file_path[r],
                          disk, h)
               ELSE /\ pdf_text' = [pdf_text EXCEPT ![r] = got.pdf_text]
                    /\ page_count' = [page_count EXCEPT ![r] = got.page_count]
                    /\ pc' = [pc EXCEPT ![r] = "extracted"]
                    /\ hist' = [hist EXCEPT ![r] = Note(@,
                           [h EXCEPT !.stages = @ \o <<"Extracted">>])]
                    /\ UNCHANGED <<upload, temp_file, temp_file_path,
                                   agent_vars, resp, disk>>

\* agent.py lines 93-133: a new session service, a session id, the session,
\* the runner, the empty response_text.
SummarizeStart(r) ==
    /\ pc[r] = "extracted"
    /\ \E sid \in SessionIds :
           session_service' =
               [session_service EXCEPT ![r] = {session_key(sid)}]
    /\ response_text' = [response_text EXCEPT ![r] = <<>>]
    /\ pc' = [pc EXCEPT ![r] = "running"]
    /\ hist' = [hist EXCEPT ![r] = Note(@, [@ EXCEPT !.model_calls = @ + 1])]
    /\ UNCHANGED <<upload, handler_vars, nevents, resp, disk>>

\* agent.py lines 100-115 and 155-161, main.py 134-140: create_session
\* raises.
SessionFails(r) ==
    /\ pc[r] = "extracted"
    /\ \E msg \in RuntimeErrors :
           Leave(r, summary_error(adk_failure(msg)), temp_file[r],
                 temp_file_path[r], disk,
                 [hist[r] EXCEPT !.model_calls = @ + 1, !.error = msg,
                                 !.fault = "create_session"])

\* agent.py lines 134-144: the next event of the stream.
Event(r, from) ==
    /\ pc[r] = "running"
    /\ nevents[r] < MaxEvents
    /\ nevents' = [nevents EXCEPT ![r] = @ + 1]
    /\ \E event \in from :
           /\ response_text' =
                  [response_text EXCEPT ![r] = on_event(@, event)]
           /\ hist' = [hist EXCEPT ![r] =
                  Note(@, [@ EXCEPT !.events = Append(@, event)])]
    /\ UNCHANGED <<pc, upload, handler_vars, session_service, resp, disk>>

RunEvent(r) == Event(r, SmallEvents)

RunAnyEvent(r) == Event(r, Events)

RunTextEvent(r) == Event(r, TextEvents)

\* agent.py lines 134-138 and 155-161, main.py 134-140: the runtime raises
\* instead of yielding the next event.
RunRaises(r) ==
    /\ pc[r] = "running"
    /\ \E msg \in RuntimeErrors :
           Leave(r, summary_error(adk_failure(msg)), temp_file[r],
                 temp_file_path[r], disk,
                 [hist[r] EXCEPT !.error = msg, !.fault = "run_async"])

\* agent.py lines 146-153, main.py 134-146: the stream ends.
StreamEnd(r) ==
    /\ pc[r] = "running"
    /\ LET got == end_of_stream(response_text[r])
           out == IF got.exc.kind # "" THEN summary_error(got.exc)
                  ELSE SummaryResponse(got.summary, page_count[r],
                                       upload[r].filename)
       IN  Leave(r, out, temp_file[r], temp_file_path[r], disk,
                 [hist[r] EXCEPT !.ended = TRUE])

\* The response is out and the request is over; the files it left on the
\* disk stay.
Retire(r) ==
    /\ pc[r] = "done"
    /\ pc' = [pc EXCEPT ![r] = "idle"]
    /\ upload' = [upload EXCEPT ![r] = NoUpload]
    /\ resp' = [resp EXCEPT ![r] = NoResponse]
    /\ hist' = [hist EXCEPT ![r] = NoHist]
    /\ UNCHANGED <<handler_vars, agent_vars, disk>>

Pipeline(r) ==
    \/ Validate(r)
    \/ StageCreateFails(r)
    \/ StageWriteFails(r)
    \/ Stage(r)
    \/ Extract(r)
    \/ SummarizeStart(r)
    \/ SessionFails(r)
    \/ RunRaises(r)
    \/ StreamEnd(r)
    \/ Retire(r)

\* One request at a time, every upload, a short stream.
Next == \E r \in Requests : Receive(r) \/ RunEvent(r) \/ Pipeline(r)

Spec == Init /\ [][Next]_vars

\* One request at a time, the good upload, every stream.
SummaryNext ==
    \E r \in Requests : ReceiveGood(r) \/ RunAnyEvent(r) \/ Pipeline(r)

SummarySpec == Init /\ [][SummaryNext]_vars

\* Requests side by side, two uploads, a stream of text events.
ConcNext ==
    \E r \in Requests :
        ReceiveConcurrent(r) \/ RunTextEvent(r) \/ Pipeline(r)

ConcSpec == Init /\ [][ConcNext]_vars

\* ------------------------------------------------------------- claims
\* The requests whose history is kept and that have been received.
Tracked == { r \in Requests : hist[r].stages # <<>> }

Finished == { r \in Tracked : pc[r] = "done" }

NonBlank(t) == \E i \in 1..Len(t) : t[i] \notin Whitespace

\* The file name ends in ".pdf" in any mix of cases.
EndsInPdfAnyCase(f) ==
    /\ Len(f) >= 4
    /\ f[Len(f) - 3] = "."
    /\ f[Len(f) - 2] \in {"p", "P"}
    /\ f[Len(f) - 1] \in {"d", "D"}
    /\ f[Len(f)] \in {"f", "F"}

\* msg occurs in text.
Contains(text, msg) ==
    \E i \in 1..Len(text) :
        /\ i + Len(msg) - 1 <= Len(text)
        /\ SubSeq(text, i, i + Len(msg) - 1) = msg

\* The number a sequence of decimal digits writes.
DigitValue(c) == CHOOSE d \in 0..9 : Digit[d + 1] = c

RECURSIVE DecimalValue(_)
DecimalValue(ds) ==
    IF ds = <<>> THEN 0
    ELSE 10 * DecimalValue(SubSeq(ds, 1, Len(ds) - 1)) + DigitValue(ds[Len(ds)])

\* C1: once a request has completed, in whatever way (200, a 400 or 500
\* raised after staging began, an unexpected exception at any step, the
\* write of the upload bytes included), the temp file it created is no
\* longer on the disk.
C1_TempFileGoneAfterRequest ==
    \A r \in Finished :
        hist[r].created # "" => hist[r].created \notin disk

\* C2: a valid PDF whose pages all yield empty or whitespace-only text
\* fails extraction as an empty document and /upload answers 400, not 500.
C2_EmptyDocumentIs400 ==
    \A r \in Finished :
        ( /\ hist[r].extract_calls = 1
          /\ hist[r].fault = ""
          /\ upload[r].doc.valid
          /\ \A n \in 1..Len(upload[r].doc.pages) :
                 ~NonBlank(upload[r].doc.pages[n]) )
        => /\ "Extracted" \notin { hist[r].stages[i] :
                                      i \in 1..Len(hist[r].stages) }
           /\ resp[r].status = 400

\* The upload is one the validation gate turns away.
TurnedAway(u) ==
    \/ ~EndsInPdfAnyCase(u.filename)
    \/ u.size = 0
    \/ u.size > MAX_FILE_SIZE_BYTES

\* C3: an upload whose file name does not end in .pdf (in any case) is
\* answered 400 and never reaches staging: no temp file is created, and
\* neither the extractor nor the model runtime is called; no request the
\* validation turns away does any filesystem or model work.
C3_RejectedBeforeAnyWork ==
    \A r \in Tracked :
        TurnedAway(upload[r]) =>
            /\ pc[r] \in {"received", "done"}
            /\ hist[r].created = ""
            /\ hist[r].extract_calls = 0
            /\ hist[r].model_calls = 0
            /\ pc[r] = "done" =>
                   /\ resp[r].status = 400
                   /\ hist[r].stages = <<"Received", "Rejected">>

C3_Witness ==
    \E r \in Finished :
        /\ upload[r].filename = <<"a", ".", "t", "x", "t">>
        /\ upload[r].size = 1
        /\ resp[r].status = 400
        /\ disk = {}

\* C4: with a .pdf file name and n bytes, validation passes exactly when
\* 0 < n <= MAX_FILE_SIZE_BYTES (the maximum itself is accepted); n = 0 is
\* answered 400 "empty file", n > MAX_FILE_SIZE_BYTES is answered 400 with a
\* reason that names the configured limit in MB.
C4_SizeBounds ==
    \A r \in Tracked :
        (EndsInPdfAnyCase(upload[r].filename) /\ pc[r] # "received") =>
            LET n == upload[r].size
                d == resp[r].detail
            IN  /\ (0 < n /\ n <= MAX_FILE_SIZE_BYTES)
                       <=> hist[r].stages[2] = "Validated"
                /\ n = 0 =>
                       /\ resp[r].status = 400
                       /\ d = <<"Uploaded file is empty">>
                /\ n > MAX_FILE_SIZE_BYTES =>
                       /\ resp[r].status = 400
                       /\ Len(d) >= 3
                       /\ d[1] = "File size exceeds maximum allowed size of "
                       /\ DecimalValue(SubSeq(d, 2, Len(d) - 1))
                              = MAX_FILE_SIZE_MB
                       /\ d[Len(d)] = "MB"

C4_Witness ==
    \E r \in Tracked :
        /\ upload[r].size = MAX_FILE_SIZE_BYTES
        /\ EndsInPdfAnyCase(upload[r].filename)
        /\ pc[r] = "staged"

\* The model runtime raised during this request, and the answer is 500 with
\* the original error text in its detail and no summary.
RuntimeErrorAnswer(r) ==
    /\ resp[r].status = 500
    /\ Contains(resp[r].detail, hist[r].error)
    /\ resp[r].summary = <<>>

\* C5 as claimed: when the model runtime raises (creating the session,
\* before the first event, or after some text was received), the answer is
\* 500 with the original error text in the detail, no summary built from
\* the text received so far, and the temp file is removed.
C5_RuntimeErrorRemovesTempFile ==
    \A r \in Finished :
        hist[r].error # <<>> =>
            /\ RuntimeErrorAnswer(r)
            /\ hist[r].created \notin disk

\* C5 as amended: the same answer; the temp file is removed unless the
\* os.unlink of the finally clause itself fails, a failure that is
\* swallowed and leaves the answer as it is.
C5_RuntimeErrorAnswered ==
    \A r \in Finished :
        hist[r].error # <<>> =>
            /\ RuntimeErrorAnswer(r)
            /\ hist[r].created # ""
            /\ ~hist[r].unlink_failed => hist[r].created \notin disk

C5_Witness ==
    \E r \in Finished :
        /\ hist[r].fault = "run_async"
        /\ hist[r].events = << Content(<< Text(<<"a">>) >>) >>
        /\ hist[r].error = <<"Connection refused">>
        /\ ~hist[r].unlink_failed

\* The pages whose text is not blank, and the places of the page markers.
TextPages(pages) == { n \in 1..Len(pages) : NonBlank(pages[n]) }

MarkerPlaces(text) == { i \in 1..Len(text) : text[i] = "--- Page " }

\* How a page number reads in the marker line.
PageLabel(n) ==
    CASE n = 1 -> <<"1">>
      [] n = 2 -> <<"2">>
      [] n = 3 -> <<"3">>
      [] n = 4 -> <<"4">>
      [] n = 5 -> <<"5">>
      [] OTHER -> <<"?">>

\* At place i of text stands the marker of page n, then that page's text.
BlockAt(text, i, n, page) ==
    LET block == <<"--- Page ">> \o PageLabel(n) \o <<" ---", "\n">> \o page
    IN  /\ i + Len(block) - 1 <= Len(text)
        /\ SubSeq(text, i, i + Len(block) - 1) = block

\* text holds a marker for exactly the pages with text, in ascending order
\* of the page number, each followed by the text of its page.
MarkersMatch(text, pages) ==
    /\ Cardinality(MarkerPlaces(text)) = Cardinality(TextPages(pages))
    /\ \A n \in TextPages(pages) :
           \E i \in MarkerPlaces(text) :
               /\ BlockAt(text, i, n, pages[n])
               /\ Cardinality({ j \in MarkerPlaces(text) : j < i })
                      = Cardinality({ m \in TextPages(pages) : m < n })

\* C6: for a PDF of which at least one page has text, the extracted text
\* holds a "--- Page N ---" marker for exactly the pages N (from 1) whose
\* text is not blank, in ascending order, each page's text after its
\* marker; the page_count of a 200 answer is the number of all pages, the
\* blank ones included.
C6_MarkersAndPageCount ==
    \A r \in Tracked :
        LET pages == upload[r].doc.pages IN
        /\ pc[r] \in {"extracted", "running"} =>
               /\ TextPages(pages) # {}
               /\ MarkersMatch(pdf_text[r], pages)
               /\ page_count[r] = Len(pages)
        /\ resp[r].status = 200 => resp[r].page_count = Len(pages)
        /\ ( /\ pc[r] = "done"
             /\ hist[r].extract_calls = 1
             /\ hist[r].fault \notin {"open", "get_text", "page_count"}
             /\ upload[r].doc.valid
             /\ TextPages(pages) # {} )
           => hist[r].stages[4] = "Extracted"

C6_Witness ==
    \E r \in Finished :
        /\ upload[r].doc.pages = << <<"a">>, <<" ", "\n">>, <<" ", "b", "\n">> >>
        /\ resp[r].status = 200
        /\ resp[r].page_count = 3

\* Every text of the parts of the events, in the order of arrival.
RECURSIVE PartsText(_)
PartsText(parts) ==
    IF parts = <<>> THEN <<>>
    ELSE (IF Head(parts).has THEN Head(parts).text ELSE <<>>)
         \o PartsText(Tail(parts))

RECURSIVE AllText(_)
AllText(events) ==
    IF events = <<>> THEN <<>>
    ELSE (IF Head(events).content THEN PartsText(Head(events).parts) ELSE <<>>)
         \o AllText(Tail(events))

\* s is all without the whitespace at its two ends.
TrimOf(s, all) ==
    \E i \in 1..Len(all) : \E j \in i..Len(all) :
        /\ s = SubSeq(all, i, j)
        /\ all[i] \notin Whitespace
        /\ all[j] \notin Whitespace
        /\ \A k \in 1..Len(all) : (k < i \/ k > j) => all[k] \in Whitespace

\* C7: whatever finite sequence of events the model runtime yields, each
\* with any number of text fragments, the summary is the concatenation of
\* all fragments in the order of arrival (and of the parts within an
\* event) without its leading and trailing whitespace, when that is not
\* empty; when it is empty or only whitespace the call fails, so that no
\* 200 answer carries an empty summary.
C7_SummaryIsTrimmedConcatenation ==
    \A r \in Finished :
        /\ hist[r].ended =>
               LET all == AllText(hist[r].events) IN
               IF NonBlank(all)
               THEN /\ resp[r].status = 200
                    /\ TrimOf(resp[r].summary, all)
               ELSE /\ resp[r].status = 500
                    /\ resp[r].summary = <<>>
        /\ resp[r].status = 200 =>
               /\ hist[r].ended
               /\ NonBlank(resp[r].summary)

C7_Witness ==
    \E r \in Finished :
        /\ hist[r].events =
               << Content(<< Text(<<" ">>), Text(<<"a">>) >>),
                  Content(<< Text(<<" ">>), Text(<<"b">>) >>) >>
        /\ resp[r].status = 200
        /\ resp[r].summary = <<"a", " ", "b">>

\* C8: when the staged file is corrupted or no PDF container the answer is
\* 400; when extraction or page counting fails for another reason than a
\* broken or an empty document the answer is 500.
C8_ExtractionFailureStatus ==
    \A r \in Finished :
        (hist[r].extract_calls = 1 /\ hist[r].stages[4] # "Extracted") =>
            /\ ~upload[r].doc.valid => resp[r].status = 400
            /\ hist[r].fault \in {"open", "get_text"} => resp[r].status = 500
            /\ ( /\ hist[r].fault = "page_count"
                 /\ TextPages(upload[r].doc.pages) # {} )
               => resp[r].status = 500

C8_Witness ==
    \E r \in Finished :
        /\ ~upload[r].doc.valid
        /\ hist[r].extract_calls = 1
        /\ resp[r].status = 400

StageOrder ==
    <<"Received", "Validated", "Staged", "Extracted", "Summarized",
      "Responded">>

\* The stages so far follow the order, or follow it up to some stage before
\* Summarized and end with the one failure.
InStageOrder(stages) ==
    \/ \E k \in 1..Len(StageOrder) : stages = SubSeq(StageOrder, 1, k)
    \/ \E k \in 1..4 : \E end \in {"Rejected", "Failed"} :
           stages = Append(SubSeq(StageOrder, 1, k), end)

\* C9: a request goes through Received, Validated, Staged, Extracted,
\* Summarized, Responded in that order, skipping and revisiting none; the
\* model runtime is called at most once and only after an extraction that
\* gave text; a 200 answer comes only after the summarization succeeded;
\* the first failure ends the request with one 4xx or 5xx answer, no later
\* stage and no retry.
C9_StagesInOrder ==
    \A r \in Tracked :
        LET stages == hist[r].stages
            last == stages[Len(stages)]
        IN  /\ InStageOrder(stages)
            /\ hist[r].extract_calls <= 1
            /\ hist[r].model_calls <= 1
            /\ hist[r].extract_calls = 1 => stages[3] = "Staged"
            /\ hist[r].model_calls = 1 =>
                   /\ stages[4] = "Extracted"
                   /\ hist[r].extract_calls = 1
                   /\ TextPages(upload[r].doc.pages) # {}
            /\ hist[r].events # <<>> => hist[r].model_calls = 1
            /\ (pc[r] = "done") <=> (last \in {"Responded", "Rejected", "Failed"})
            /\ (pc[r] = "done") <=> (resp[r].status # 0)
            /\ last = "Responded" <=> resp[r].status = 200
            /\ last = "Rejected" <=> resp[r].status \in 400..499
            /\ last = "Failed" <=> resp[r].status \in 500..599
            /\ resp[r].status = 200 =>
                   /\ hist[r].ended
                   /\ hist[r].model_calls = 1
            /\ pc[r] = "received" <=> last = "Received"
            /\ pc[r] = "validated" <=> last = "Validated"
            /\ pc[r] = "staged" <=> last = "Staged"
            /\ pc[r] \in {"extracted", "running"} <=> last = "Extracted"

C9_Witness ==
    \E r \in Finished :
        /\ hist[r].stages = StageOrder
        /\ resp[r].status = 200
        /\ hist[r].model_calls = 1

\* The requests that hold a staged temp file.
Staged == { r \in Requests : pc[r] \in {"staged", "extracted", "running"} }

Own(r) ==
    <<pc[r], upload[r], temp_file[r], temp_file_path[r], pdf_text[r],
      page_count[r], session_service[r], response_text[r], nevents[r],
      resp[r]>>

\* No two requests hold the same temp path, the file of each is on the
\* disk until the request itself removes it, and each session service
\* holds the one session of its own request.
OwnTempFileAndSessionService ==
    /\ \A r \in Staged :
           /\ temp_file[r]
           /\ temp_file_path[r] \in disk
           /\ \A q \in Staged \ {r} : temp_file_path[r] # temp_file_path[q]
    /\ \A r \in Requests :
           /\ Cardinality(session_service[r]) <= 1
           /\ session_service[r] # {} <=> pc[r] = "running"

\* A step changes the state of one request and removes no file but, at
\* most, the one this request holds.
OwnStep ==
    \A r \in Requests :
        Own(r)' # Own(r) =>
            /\ \A q \in Requests \ {r} : Own(q)' = Own(q)
            /\ disk \ disk' \subseteq {temp_file_path[r]}

====
